---- MODULE Spec2Model ----
(***************************************************************************)
(* The browser-side session/streaming client of the form filler:           *)
(*   - the session store (stores/session.ts),                              *)
(*   - the upload zone's handleFile (FileUpload.svelte),                   *)
(*   - the chat panel's stream consumer, submit and New Form handlers      *)
(*     (ChatInterface.svelte),                                             *)
(*   - the page, which shows ChatInterface while hasSession and FileUpload *)
(*     otherwise (+page.svelte).                                           *)
(* Execution is the browser's event loop: every action below is one        *)
(* run-to-completion task (user input, network completion, stream event,   *)
(* timer fire) together with the microtasks it queues, which include the   *)
(* framework's re-render (mount, destroy, effects).                        *)
(***************************************************************************)
EXTENDS Integers, Sequences, FiniteSets, TLC

(* ------------------------------ bounds --------------------------------- *)

\* Session ids the backend mints over a run; every ChatInterface instance is
\* mounted for a fresh one, so this also bounds the component instances.
MaxSessions == 2
\* uploadDocument calls in flight at once.
MaxUploads == 2
\* Length of the transcript.
MaxMsgs == 2
\* Reconnect timers pending at once.
MaxTimers == 1

(* ------------------------------ values --------------------------------- *)

\* null of `string | null` fields that hold text.
Null == "<null>"
\* null of sessionId; the backend's ids are 1..MaxSessions.
NoSession == 0
\* ChatInterface instances, in the order they are mounted; 0 = none mounted.
Instances == 1..MaxSessions
NoInstance == 0
\* `let eventSource: EventSource | null = null`: null, a reference to an
\* EventSource that has been close()d, or the id of an open one.
NullES == 0
ClosedES == -1
\* Ids of open EventSource objects. An instance holds at most one reference,
\* so one more id than instances always leaves a fresh one.
HandleIds == 1..(MaxSessions + 1)
FreeHandle == [live |-> FALSE, sid |-> NoSession, owner |-> NoInstance]

\* File names handed to the upload zone, as character sequences.
FileNames ==
    { <<"f", ".", "d", "o", "c", "x">>,
      <<"n", ".", "t", "x", "t">>,
      <<"d", "o", "c", "x">> }
DocxSuffix == <<".", "d", "o", "c", "x">>

\* Text in the chat input when the user submits, as character sequences.
InputValues == { <<"h", "i">>, <<" ">>, <<" ", "h", "i", " ">> }

\* event.data of a stream event. json = FALSE: JSON.parse throws. isNull:
\* the JSON value null, on which data.type throws. content is a character
\* sequence for a message and a text for an error; a missing or empty one
\* is <<>> or "" (falsy).
Payload(json, isNull, type, content, is_complete) ==
    [json |-> json, isNull |-> isNull, type |-> type, content |-> content,
     is_complete |-> is_complete]
Payloads ==
    { Payload(FALSE, FALSE, "", "", FALSE),
      Payload(TRUE, TRUE, "", "", FALSE),
      Payload(TRUE, FALSE, "message", <<"H", "i", "!">>, FALSE),
      Payload(TRUE, FALSE, "message", <<>>, FALSE),
      Payload(TRUE, FALSE, "done", "", TRUE),
      Payload(TRUE, FALSE, "done", "", FALSE),
      Payload(TRUE, FALSE, "error", "boom", FALSE),
      Payload(TRUE, FALSE, "ping", "", FALSE) }

\* What onmessage is handed, in the words of the event protocol: a "message"
\* with content, a "done" with or without is_complete, an "error", or
\* anything else.
Kind(p) ==
    IF ~p.json \/ p.isNull THEN "ignored"
    ELSE IF p.type = "message" THEN (IF p.content # <<>> THEN "message" ELSE "ignored")
    ELSE IF p.type = "done" THEN (IF p.is_complete THEN "doneComplete" ELSE "done")
    ELSE IF p.type = "error" THEN "error"
    ELSE "ignored"

\* `detail` of a failed response's JSON body ("" when absent).
Details == {"", "boom"}

(* ------------------------------ state ---------------------------------- *)

VARIABLES
    session,      \* the store's SessionState
    mounted,      \* the mounted ChatInterface instance, or NoInstance
    nInst,        \* ChatInterface instances mounted so far
    eventSource,  \* per instance: its `eventSource` variable
    isSending,    \* per instance: its `isSending` state (a send is in flight)
    timers,       \* pending setTimeout(reconnectSSE, 2000) calls, oldest first:
                  \* the instance whose reconnectSSE it runs, and the number
                  \* of resets that had happened when it was scheduled
    handles,      \* per handle id: the open EventSource, its URL's session id
                  \* and the instance whose callbacks it carries
    uploads,      \* uploadDocument calls in flight
    nextSid,      \* the next session id the backend mints
    last          \* the task that ran last

vars == <<session, mounted, nInst, eventSource, isSending, timers, handles,
          uploads, nextSid, last>>

(* --------------------------- session store ----------------------------- *)

InitialState ==
    [sessionId |-> NoSession, isUploading |-> FALSE, isComplete |-> FALSE,
     messages |-> <<>>, isConnected |-> FALSE, error |-> Null]

setSession(state, sessionId) ==
    [state EXCEPT !.sessionId = sessionId, !.error = Null]

setUploading(state, isUploading) == [state EXCEPT !.isUploading = isUploading]

setComplete(state, isComplete) == [state EXCEPT !.isComplete = isComplete]

setConnected(state, isConnected) == [state EXCEPT !.isConnected = isConnected]

setError(state, error) == [state EXCEPT !.error = error]

\* addMessage putting the new Message first (a seeded defect).
addMessage_Prepend(state, role, content) ==
    [state EXCEPT !.messages = <<[role |-> role, content |-> content]>> \o @]

\* addMessage built on setSession's shape, which also clears error (a seeded defect).
addMessage_ClearsError(state, role, content) ==
    [state EXCEPT !.messages = Append(@, [role |-> role, content |-> content]),
                  !.error = Null]

\* id (crypto.randomUUID) and timestamp are read by no handler: they key the
\* rendered list and are displayed.
addMessage(state, role, content) ==
    [state EXCEPT !.messages = Append(@, [role |-> role, content |-> content])]

\* reset that leaves the transcript in place (a seeded defect).
reset_KeepsMessages(state) ==
    [sessionId |-> NoSession, isUploading |-> FALSE, isComplete |-> FALSE,
     messages |-> state.messages, isConnected |-> FALSE, error |-> Null]

\* reset that leaves the connection flag as it is (a seeded defect).
reset_KeepsConnected(state) ==
    [sessionId |-> NoSession, isUploading |-> FALSE, isComplete |-> FALSE,
     messages |-> <<>>, isConnected |-> state.isConnected, error |-> Null]

\* set({...}) of a literal that names all six fields: one write of the store.
reset(state) ==
    [sessionId |-> NoSession, isUploading |-> FALSE, isComplete |-> FALSE,
     messages |-> <<>>, isConnected |-> FALSE, error |-> Null]

hasSession(state) == state.sessionId # NoSession

canDownload(state) == state.isComplete

(* ----------------------- ChatInterface: the stream ---------------------- *)

\* What one task reads and writes while it runs: the store, the open
\* EventSources, every instance's `eventSource` variable, and a log of the
\* handle ids the task opened and closed.
World ==
    [session |-> session, handles |-> handles, eventSource |-> eventSource,
     opened |-> {}, closed |-> {}]

LiveHandles(hs) == {h \in HandleIds : hs[h].live}

\* The id given to the next EventSource constructed: the smallest that is
\* neither open nor was closed earlier in this task.
NewHandleId(w) ==
    CHOOSE h \in HandleIds :
        /\ ~w.handles[h].live
        /\ h \notin w.closed
        /\ \A k \in HandleIds :
              (~w.handles[k].live /\ k \notin w.closed) => h <= k

\* createEventSource(sessionId): new EventSource(`.../chat/stream/${sessionId}`),
\* assigned to instance i's `eventSource` with i's callbacks attached.
createEventSource(w, i, sessionId) ==
    LET h == NewHandleId(w) IN
    [w EXCEPT !.handles[h] = [live |-> TRUE, sid |-> sessionId, owner |-> i],
              !.eventSource[i] = h,
              !.opened = @ \cup {h}]

\* eventSource.close() on instance i's (non-null) eventSource; closing a
\* closed EventSource does nothing.
closeEventSource(w, i) ==
    LET h == w.eventSource[i] IN
    IF h \in HandleIds
    THEN [w EXCEPT !.handles[h] = FreeHandle,
                   !.eventSource[i] = ClosedES,
                   !.closed = @ \cup {h}]
    ELSE w

\* $session.sessionId as instance i's script reads it. The store auto-
\* subscription yields the store's current value, also once i is destroyed.
ReadSessionId(w, i) == w.session.sessionId

connectSSE(w, i) ==
    LET sessionId == ReadSessionId(w, i) IN
    IF sessionId = NoSession
    THEN w
    ELSE LET w1 == createEventSource(w, i, sessionId) IN
         [w1 EXCEPT !.session = setConnected(@, TRUE)]

\* reconnectSSE opening the new EventSource without closing the old (a seeded defect).
reconnectSSE_NoClose(w, i) ==
    IF ReadSessionId(w, i) # NoSession THEN connectSSE(w, i) ELSE w

\* reconnectSSE that closes and never re-opens (a seeded defect).
reconnectSSE_OnlyClose(w, i) ==
    IF w.eventSource[i] # NullES THEN closeEventSource(w, i) ELSE w

\* reconnectSSE that starts the transcript afresh for the new stream (a seeded defect).
reconnectSSE_DropsTranscript(w, i) ==
    LET w1 == IF w.eventSource[i] # NullES THEN closeEventSource(w, i) ELSE w IN
    IF ReadSessionId(w1, i) # NoSession
    THEN connectSSE([w1 EXCEPT !.session.messages = <<>>], i)
    ELSE w1

reconnectSSE(w, i) ==
    LET w1 == IF w.eventSource[i] # NullES THEN closeEventSource(w, i) ELSE w IN
    IF ReadSessionId(w1, i) # NoSession THEN connectSSE(w1, i) ELSE w1

\* onmessage whose catch reports the parse failure (a seeded defect).
onmessage_CatchSetsError(w, i, p) ==
    IF ~p.json \/ p.isNull
    THEN [w EXCEPT !.session = setError(@, "Invalid event")]
    ELSE IF p.type = "message" /\ p.content # <<>>
    THEN [w EXCEPT !.session = addMessage(@, "assistant", p.content)]
    ELSE IF p.type = "done"
    THEN reconnectSSE(
             IF p.is_complete
             THEN [w EXCEPT !.session = setComplete(@, TRUE)]
             ELSE w, i)
    ELSE IF p.type = "error"
    THEN [w EXCEPT !.session = setError(@, p.content)]
    ELSE w

\* onmessage that reconnects on an error event as it does on done (a seeded defect).
onmessage_ErrorReconnects(w, i, p) ==
    IF ~p.json \/ p.isNull
    THEN w
    ELSE IF p.type = "message" /\ p.content # <<>>
    THEN [w EXCEPT !.session = addMessage(@, "assistant", p.content)]
    ELSE IF p.type = "done"
    THEN reconnectSSE(
             IF p.is_complete
             THEN [w EXCEPT !.session = setComplete(@, TRUE)]
             ELSE w, i)
    ELSE IF p.type = "error"
    THEN reconnectSSE([w EXCEPT !.session = setError(@, p.content)], i)
    ELSE w

\* onmessage that stores the event's is_complete whatever it is (a seeded defect).
onmessage_StoresIsComplete(w, i, p) ==
    IF ~p.json \/ p.isNull
    THEN w
    ELSE IF p.type = "message" /\ p.content # <<>>
    THEN [w EXCEPT !.session = addMessage(@, "assistant", p.content)]
    ELSE IF p.type = "done"
    THEN reconnectSSE([w EXCEPT !.session = setComplete(@, p.is_complete)], i)
    ELSE IF p.type = "error"
    THEN [w EXCEPT !.session = setError(@, p.content)]
    ELSE w

\* eventSource.onmessage of a handle opened by instance i, on event.data = p.
\* JSON.parse throwing, or data.type throwing on null, lands in the empty catch.
onmessage(w, i, p) ==
    IF ~p.json \/ p.isNull
    THEN w
    ELSE IF p.type = "message" /\ p.content # <<>>
    THEN [w EXCEPT !.session = addMessage(@, "assistant", p.content)]
    ELSE IF p.type = "done"
    THEN reconnectSSE(
             IF p.is_complete
             THEN [w EXCEPT !.session = setComplete(@, TRUE)]
             ELSE w, i)
    ELSE IF p.type = "error"
    THEN [w EXCEPT !.session = setError(@, p.content)]
    ELSE w

\* onerror that also reports the failure to the user (a seeded defect).
onerror_SetsError(w, i) ==
    [w EXCEPT !.session = setError(setConnected(@, FALSE), "Connection lost")]

\* The store call of eventSource.onerror; its setTimeout is in OnError.
onerror(w, i) == [w EXCEPT !.session = setConnected(@, FALSE)]

handleNewSession(w, i) ==
    LET w1 == IF w.eventSource[i] # NullES THEN closeEventSource(w, i) ELSE w IN
    [w1 EXCEPT !.session = reset(@)]

onMount(w, i) == IF ReadSessionId(w, i) # NoSession THEN connectSSE(w, i) ELSE w

onDestroy(w, i) ==
    IF w.eventSource[i] # NullES THEN closeEventSource(w, i) ELSE w

\* $effect(() => { if ($session.sessionId && !eventSource) connectSSE(); })
effect(w, i) ==
    IF ReadSessionId(w, i) # NoSession /\ w.eventSource[i] = NullES
    THEN connectSSE(w, i)
    ELSE w

(* ------------------------------ the page ------------------------------- *)

\* The re-render that follows a task: {#if $hasSession} <ChatInterface/>
\* {:else} <FileUpload/>. A ChatInterface that appears is a new instance
\* (fresh script state; onMount, then its effect); one that disappears runs
\* onDestroy; one that stays re-runs its effect, which reads $session.
\* m is the instance mounted before, n the instances created so far.
Render(w, m, n) ==
    IF hasSession(w.session) /\ m = NoInstance
    THEN [w |-> effect(onMount(w, n + 1), n + 1), mounted |-> n + 1, nInst |-> n + 1]
    ELSE IF ~hasSession(w.session) /\ m # NoInstance
    THEN [w |-> onDestroy(w, m), mounted |-> NoInstance, nInst |-> n]
    ELSE IF m # NoInstance
    THEN [w |-> effect(w, m), mounted |-> m, nInst |-> n]
    ELSE [w |-> w, mounted |-> m, nInst |-> n]

\* reset() calls so far: every instance but a mounted one was ended by one.
Resets == IF mounted # NoInstance THEN nInst - 1 ELSE nInst

\* The state a task leaves: w after the re-render, and which task it was.
Finish(w, op) ==
    LET r == Render(w, mounted, nInst) IN
    /\ session' = r.w.session
    /\ handles' = r.w.handles
    /\ eventSource' = r.w.eventSource
    /\ mounted' = r.mounted
    /\ nInst' = r.nInst
    /\ last' = op

(* ------------------------- FileUpload: handleFile ----------------------- *)

\* endsWith that does not compare the suffix's first character (a seeded defect).
endsWith_SkipsDot(name, suffix) ==
    /\ Len(name) >= Len(suffix) - 1
    /\ SubSeq(name, Len(name) - Len(suffix) + 2, Len(name)) = Tail(suffix)

\* String.prototype.endsWith
endsWith(name, suffix) ==
    /\ Len(name) >= Len(suffix)
    /\ SubSeq(name, Len(name) - Len(suffix) + 1, Len(name)) = suffix

\* A failed request reported by the fallback text only (a seeded defect).
ErrorMessage_IgnoresDetail(detail, fallback) == fallback

\* error.detail || fallback, the message of the Error a failed request throws
\* and the handler's catch puts in the store.
ErrorMessage(detail, fallback) == IF detail # "" THEN detail ELSE fallback

\* handleFile on a name that does not end in .docx. The upload zone exists
\* while no ChatInterface is shown.
HandleFileRejected(name) ==
    /\ mounted = NoInstance
    /\ ~endsWith(name, DocxSuffix)
    /\ Finish([World EXCEPT !.session = setError(@, "Please upload a .docx file")],
              "rejectFile")
    /\ UNCHANGED <<isSending, timers, uploads, nextSid>>

\* handleFile up to `await uploadDocument(file)`. While isUploading the zone
\* takes no pointer input (.uploading has pointer-events: none) but keeps its
\* tabindex and its Enter key handler, so a file can be handed in while an
\* upload is in flight.
HandleFileUpload(name) ==
    /\ mounted = NoInstance
    /\ endsWith(name, DocxSuffix)
    /\ uploads < MaxUploads
    /\ uploads' = uploads + 1
    /\ Finish([World EXCEPT !.session = setError(setUploading(@, TRUE), Null)],
              "upload")
    /\ UNCHANGED <<isSending, timers, nextSid>>

\* uploadDocument resolves: setSession(response.session_id), then finally.
UploadResolve ==
    /\ uploads > 0
    /\ nextSid <= MaxSessions
    /\ uploads' = uploads - 1
    /\ nextSid' = nextSid + 1
    /\ Finish([World EXCEPT !.session = setUploading(setSession(@, nextSid), FALSE)],
              "uploadResolve")
    /\ UNCHANGED <<isSending, timers>>

\* A failed upload that still starts a session (a seeded defect).
UploadReject_SetsSession(detail) ==
    /\ uploads > 0
    /\ nextSid <= MaxSessions
    /\ uploads' = uploads - 1
    /\ Finish([World EXCEPT !.session =
                  setUploading(setError(setSession(@, nextSid),
                                        ErrorMessage(detail, "Upload failed")), FALSE)],
              "uploadReject")
    /\ UNCHANGED <<isSending, timers, nextSid>>

\* A failed upload whose setUploading(false) is skipped (a seeded defect).
UploadReject_NoFinally(detail) ==
    /\ uploads > 0
    /\ uploads' = uploads - 1
    /\ Finish([World EXCEPT !.session =
                  setError(@, ErrorMessage(detail, "Upload failed"))],
              "uploadReject")
    /\ UNCHANGED <<isSending, timers, nextSid>>

\* uploadDocument throws: catch, then finally.
UploadReject(detail) ==
    /\ uploads > 0
    /\ uploads' = uploads - 1
    /\ Finish([World EXCEPT !.session =
                  setUploading(setError(@, ErrorMessage(detail, "Upload failed")), FALSE)],
              "uploadReject")
    /\ UNCHANGED <<isSending, timers, nextSid>>

(* ---------------------- ChatInterface: the handlers --------------------- *)

\* An open EventSource delivers event.data = p to its onmessage.
OnMessage(h, p) ==
    /\ handles[h].live
    /\ (p.json /\ ~p.isNull /\ p.type = "message" /\ p.content # <<>>)
          => Len(session.messages) < MaxMsgs
    /\ Finish(onmessage(World, handles[h].owner, p),
              Kind(p))
    /\ UNCHANGED <<isSending, timers, uploads, nextSid>>

\* An open EventSource reports that its connection is established (the
\* "open" event, also after each of the browser's own retries). connectSSE
\* attaches onmessage and onerror only, so no code runs.
OnOpen(h) ==
    /\ handles[h].live
    /\ Finish(World, "onopen")
    /\ UNCHANGED <<isSending, timers, uploads, nextSid>>

\* An open EventSource reports a transport error to its onerror.
OnError(h) ==
    /\ handles[h].live
    /\ Len(timers) < MaxTimers
    /\ timers' = Append(timers, [inst |-> handles[h].owner, resets |-> Resets])
    /\ Finish(onerror(World, handles[h].owner),
              "onerror")
    /\ UNCHANGED <<isSending, uploads, nextSid>>

\* The oldest setTimeout(reconnectSSE, 2000) fires (equal delays fire in the
\* order they were set).
TimerFire ==
    /\ timers # <<>>
    /\ timers' = Tail(timers)
    /\ Finish(reconnectSSE(World, Head(timers).inst),
              "timer")
    /\ UNCHANGED <<isSending, uploads, nextSid>>

\* String.prototype.trim, for the space character.
RECURSIVE trimStart(_)
trimStart(s) == IF s # <<>> /\ Head(s) = " " THEN trimStart(Tail(s)) ELSE s
RECURSIVE trimEnd(_)
trimEnd(s) ==
    IF s # <<>> /\ s[Len(s)] = " " THEN trimEnd(SubSeq(s, 1, Len(s) - 1)) ELSE s
trim(s) == trimEnd(trimStart(s))

\* handleSubmit up to `await sendMessage(...)`; its early return changes
\* nothing.
HandleSubmit(inputValue) ==
    /\ mounted # NoInstance
    /\ trim(inputValue) # <<>>
    /\ ~isSending[mounted]
    /\ session.sessionId # NoSession
    /\ Len(session.messages) < MaxMsgs
    /\ isSending' = [isSending EXCEPT ![mounted] = TRUE]
    /\ Finish([World EXCEPT !.session = addMessage(@, "user", trim(inputValue))],
              "submit")
    /\ UNCHANGED <<timers, uploads, nextSid>>

\* sendMessage resolves for the instance that submitted.
SendResolve(i) ==
    /\ isSending[i]
    /\ isSending' = [isSending EXCEPT ![i] = FALSE]
    /\ Finish(World, "sendResolve")
    /\ UNCHANGED <<timers, uploads, nextSid>>

\* A failed send that takes the last Message back out (a seeded defect).
SendReject_RollsBack(i, detail) ==
    /\ isSending[i]
    /\ isSending' = [isSending EXCEPT ![i] = FALSE]
    /\ Finish([World EXCEPT !.session =
                  setError([@ EXCEPT !.messages =
                               SubSeq(@, 1, IF Len(@) > 0 THEN Len(@) - 1 ELSE 0)],
                           ErrorMessage(detail, "Failed to send message"))],
              "sendReject")
    /\ UNCHANGED <<timers, uploads, nextSid>>

\* sendMessage throws for the instance that submitted.
SendReject(i, detail) ==
    /\ isSending[i]
    /\ isSending' = [isSending EXCEPT ![i] = FALSE]
    /\ Finish([World EXCEPT !.session =
                  setError(@, ErrorMessage(detail, "Failed to send message"))],
              "sendReject")
    /\ UNCHANGED <<timers, uploads, nextSid>>

\* The New Form button.
HandleNewSession ==
    /\ mounted # NoInstance
    /\ Finish(handleNewSession(World, mounted),
              "newSession")
    /\ UNCHANGED <<isSending, timers, uploads, nextSid>>

\* The error toast's dismiss button.
DismissError ==
    /\ mounted # NoInstance
    /\ session.error # Null
    /\ Finish([World EXCEPT !.session = setError(@, Null)],
              "dismiss")
    /\ UNCHANGED <<isSending, timers, uploads, nextSid>>

(* --------------------------- specification ----------------------------- *)

Init ==
    /\ session = InitialState
    /\ mounted = NoInstance
    /\ nInst = 0
    /\ eventSource = [i \in Instances |-> NullES]
    /\ isSending = [i \in Instances |-> FALSE]
    /\ timers = <<>>
    /\ handles = [h \in HandleIds |-> FreeHandle]
    /\ uploads = 0
    /\ nextSid = 1
    /\ last = "init"

Next ==
    \/ \E name \in FileNames : HandleFileRejected(name)
    \/ \E name \in FileNames : HandleFileUpload(name)
    \/ UploadResolve
    \/ \E detail \in Details : UploadReject(detail)
    \/ \E h \in HandleIds, p \in Payloads : OnMessage(h, p)
    \/ \E h \in HandleIds : OnOpen(h)
    \/ \E h \in HandleIds : OnError(h)
    \/ TimerFire
    \/ \E inputValue \in InputValues : HandleSubmit(inputValue)
    \/ \E i \in Instances : SendResolve(i)
    \/ \E i \in Instances, detail \in Details : SendReject(i, detail)
    \/ HandleNewSession
    \/ DismissError

Spec == Init /\ [][Next]_vars

(* ------------------------- the store on its own ------------------------- *)

\* The arguments of the store's methods: role: 'user' | 'assistant', content
\* a text (a character sequence), error: string | null.
Roles == {"user", "assistant"}
Contents == { <<"h", "i">>, <<"H", "i", "!">> }
Errors == {Null, "boom"}

\* What a call of a method of the exported `session` object leaves alone,
\* whoever calls it.
others == <<mounted, nInst, eventSource, isSending, timers, handles, uploads,
            nextSid, last>>

SetSessionCall(sessionId) ==
    /\ session' = setSession(session, sessionId)
    /\ UNCHANGED others
SetUploadingCall(isUploading) ==
    /\ session' = setUploading(session, isUploading)
    /\ UNCHANGED others
SetCompleteCall(isComplete) ==
    /\ session' = setComplete(session, isComplete)
    /\ UNCHANGED others
SetConnectedCall(isConnected) ==
    /\ session' = setConnected(session, isConnected)
    /\ UNCHANGED others
SetErrorCall(error) ==
    /\ session' = setError(session, error)
    /\ UNCHANGED others
AddMessageCall(role, content) ==
    /\ Len(session.messages) < MaxMsgs
    /\ session' = addMessage(session, role, content)
    /\ UNCHANGED others
ResetCall ==
    /\ session' = reset(session)
    /\ UNCHANGED others

StoreNext ==
    \/ \E sessionId \in 1..MaxSessions : SetSessionCall(sessionId)
    \/ \E isUploading \in BOOLEAN : SetUploadingCall(isUploading)
    \/ \E isComplete \in BOOLEAN : SetCompleteCall(isComplete)
    \/ \E isConnected \in BOOLEAN : SetConnectedCall(isConnected)
    \/ \E error \in Errors : SetErrorCall(error)
    \/ \E role \in Roles, content \in Contents : AddMessageCall(role, content)
    \/ ResetCall

\* Every sequence of calls on the store, from its initial state.
StoreSpec == Init /\ [][StoreNext]_vars

(* ------------------------------ properties ------------------------------ *)

\* The EventSources a step opens and closes.
Opened == LiveHandles(handles') \ LiveHandles(handles)
Closed == LiveHandles(handles) \ LiveHandles(handles')

\* C1: in every reachable state, isComplete = true implies sessionId is
\* non-null.
C1_CompleteImpliesSession ==
    session.isComplete => session.sessionId # NoSession

\* C2: in every reachable state at most one stream handle is live (opened
\* and not yet closed), handles and timers of a previous session included.
C2_AtMostOneLiveHandle ==
    Cardinality(LiveHandles(handles)) <= 1

\* C3: a "done" event processed while a session id is set closes the handle
\* it arrived on and opens exactly one new handle, for the session id that is
\* set and with the same instance's callbacks, in that one step; isComplete
\* becomes true when is_complete is true and keeps its value when it is not.
C3_DoneReconnects ==
    [][\A h \in HandleIds, p \in Payloads :
          (/\ p.json /\ ~p.isNull /\ p.type = "done"
           /\ session.sessionId # NoSession
           /\ OnMessage(h, p))
          => /\ Closed = {h}
             /\ Cardinality(Opened) = 1
             /\ \A n \in Opened :
                   /\ handles'[n].sid = session.sessionId
                   /\ handles'[n].owner = handles[h].owner
             /\ session'.sessionId = session.sessionId
             /\ p.is_complete => session'.isComplete
             /\ ~p.is_complete => session'.isComplete = session.isComplete]_vars

\* C3's case: a done event with is_complete was processed in a session, and
\* a handle for that session is open after it.
C3_Witness ==
    /\ last = "doneComplete"
    /\ session.sessionId # NoSession
    /\ session.isComplete
    /\ \E h \in LiveHandles(handles) : handles[h].sid = session.sessionId

\* C4: the transport error callback sets isConnected false and schedules one
\* reconnect; when that timer fires, exactly one handle is opened if no reset
\* happened in the interim and sessionId is set, and none is opened if the
\* session was reset in the interim (or sessionId is null).
C4_OneReconnectPerErrorNoneAfterReset ==
    [][/\ \A h \in HandleIds :
             OnError(h) => /\ ~session'.isConnected
                           /\ Len(timers') = Len(timers) + 1
                           /\ Opened = {} /\ Closed = {}
       /\ TimerFire =>
             IF Head(timers).resets = Resets /\ session.sessionId # NoSession
             THEN Cardinality(Opened) = 1
             ELSE Opened = {}]_vars

\* C5: in every reachable state where sessionId is null, no stream handle is
\* live.
C5_NoLiveHandleWithoutSession ==
    session.sessionId = NoSession => LiveHandles(handles) = {}

\* C6: with the reconnect timer firing fairly, a transport error in a session
\* is eventually followed by the session's end or by a timer-run reconnect
\* that leaves a handle open for the session id then set.
C6_ErrorLeadsToReconnect ==
    (last = "onerror" /\ session.sessionId # NoSession)
        ~> (\/ session.sessionId = NoSession
            \/ /\ last = "timer"
               /\ \E h \in LiveHandles(handles) : handles[h].sid = session.sessionId)

\* C6's case: a reconnect timer has fired in a session and a handle for the
\* session is open, with the store showing it connected again.
C6_Witness ==
    /\ last = "timer"
    /\ session.sessionId # NoSession
    /\ session.isConnected
    /\ \E h \in LiveHandles(handles) : handles[h].sid = session.sessionId

\* C7: a payload that does not parse as JSON, or has a type other than
\* message, done or error, or is a message with empty content, changes no
\* store field and neither closes nor opens a stream handle.
C7_IgnoredPayloadChangesNothing ==
    [][\A h \in HandleIds, p \in Payloads :
          (/\ \/ ~p.json
              \/ p.type \notin {"message", "done", "error"}
              \/ p.type = "message" /\ p.content = <<>>
           /\ OnMessage(h, p))
          => /\ session' = session
             /\ handles' = handles
             /\ eventSource' = eventSource
             /\ timers' = timers]_vars

\* C7's case: an ignored payload was processed while the store held a
\* transcript.
C7_Witness ==
    /\ last = "ignored"
    /\ session.messages # <<>>
    /\ LiveHandles(handles) # {}

\* C8: a "message" event with non-empty content appends exactly one assistant
\* Message with that content at the end of the transcript and leaves every
\* other store field and the stream handles unchanged.
C8_MessageAppendsAssistant ==
    [][\A h \in HandleIds, p \in Payloads :
          (/\ p.json /\ ~p.isNull /\ p.type = "message" /\ p.content # <<>>
           /\ OnMessage(h, p))
          => /\ session' = [session EXCEPT !.messages =
                               Append(@, [role |-> "assistant", content |-> p.content])]
             /\ handles' = handles
             /\ eventSource' = eventSource]_vars

\* C8's case: a message event was processed after the user had submitted, so
\* the assistant Message follows an earlier one.
C8_Witness ==
    /\ last = "message"
    /\ Len(session.messages) = 2
    /\ session.messages[1].role = "user"
    /\ session.messages[2].role = "assistant"

\* C9: an "error" event sets the store's error to the event's content and
\* leaves every other store field (isConnected among them), the stream
\* handles and the pending reconnect timers unchanged.
C9_ErrorEventKeepsStream ==
    [][\A h \in HandleIds, p \in Payloads :
          (/\ p.json /\ ~p.isNull /\ p.type = "error"
           /\ OnMessage(h, p))
          => /\ session' = [session EXCEPT !.error = p.content]
             /\ handles' = handles
             /\ handles'[h].live
             /\ eventSource' = eventSource
             /\ timers' = timers]_vars

\* C9's case: an error event was processed on a connected stream.
C9_Witness ==
    /\ last = "error"
    /\ session.error = "boom"
    /\ session.isConnected
    /\ LiveHandles(handles) # {}

\* C10: once isComplete is true, every step but the New Form reset leaves it
\* true.
C10_CompleteMonotonic ==
    [][(session.isComplete /\ ~HandleNewSession) => session'.isComplete]_vars

\* C10's case: a done event without is_complete was processed while
\* isComplete was true.
C10_Witness ==
    /\ last = "done"
    /\ session.isComplete
    /\ session.sessionId # NoSession

\* The tasks that read or write what reconnection depends on (sessionId, the
\* EventSources, the timers): uploads, done events, transport errors, timer
\* fires and New Form. The tasks left out write only messages, error,
\* isUploading and isSending.
StreamNext ==
    \/ \E name \in FileNames : HandleFileUpload(name)
    \/ UploadResolve
    \/ \E h \in HandleIds, p \in Payloads : p.type = "done" /\ OnMessage(h, p)
    \/ \E h \in HandleIds : OnError(h)
    \/ TimerFire
    \/ HandleNewSession

\* The browser runs every pending timer.
StreamFairSpec == Init /\ [][StreamNext]_vars /\ WF_vars(TimerFire)

(* ----------------------- properties: the transcript --------------------- *)

\* C11: between two resets the transcript only grows at its end: every step
\* but the New Form reset leaves the earlier messages as a prefix; a message
\* event with content appends its content as one assistant Message at the
\* end, and no other such step changes the assistant Messages or their
\* order, whatever reconnects (done events, timer fires) run in between.
C11_TranscriptAppendOnly ==
    [][LET IsAssistant(m) == m.role = "assistant" IN
       /\ ~HandleNewSession
             => /\ Len(session'.messages) >= Len(session.messages)
                /\ SubSeq(session'.messages, 1, Len(session.messages)) = session.messages
                /\ last' # "message"
                      => SelectSeq(session'.messages, IsAssistant)
                            = SelectSeq(session.messages, IsAssistant)
       /\ \A h \in HandleIds, p \in Payloads :
             (/\ p.json /\ ~p.isNull /\ p.type = "message" /\ p.content # <<>>
              /\ OnMessage(h, p))
             => session'.messages =
                   Append(session.messages, [role |-> "assistant", content |-> p.content])
      ]_vars

\* C11's case: a reconnect has just run and the transcript still holds the
\* user's Message and the assistant's, in the order they came.
C11_Witness ==
    /\ last \in {"done", "doneComplete", "timer"}
    /\ Len(session.messages) = 2
    /\ session.messages[1].role = "user"
    /\ session.messages[2].role = "assistant"
    /\ session.isConnected

\* C12: for every store state and every (role, content), addMessage gives
\* the state whose transcript is the previous one with one Message of that
\* role and content appended last and whose other fields are the same; two
\* calls grow the transcript by two, in call order. Checked on every state
\* the store's methods can produce and on every addMessage call made there.
C12_AddMessageAppendsOne ==
    /\ [](\A r1 \in Roles, c1 \in Contents :
             LET m1 == [role |-> r1, content |-> c1]
                 s1 == addMessage(session, r1, c1)
             IN  /\ s1 = [session EXCEPT !.messages = session.messages \o <<m1>>]
                 /\ \A r2 \in Roles, c2 \in Contents :
                       LET m2 == [role |-> r2, content |-> c2]
                           s2 == addMessage(s1, r2, c2)
                       IN  /\ s2 = [session EXCEPT
                                       !.messages = session.messages \o <<m1, m2>>]
                           /\ Len(s2.messages) = Len(session.messages) + 2)
    /\ [][\A role \in Roles, content \in Contents :
             AddMessageCall(role, content)
             => session' = [session EXCEPT !.messages =
                               Append(@, [role |-> role, content |-> content])]]_vars

\* C12's case: two addMessage calls were made on a store that holds a
\* session, an error and the completion flag; the two Messages are there in
\* call order and the other fields are in place.
C12_Witness ==
    /\ session.messages = << [role |-> "user", content |-> <<"h", "i">>],
                             [role |-> "assistant", content |-> <<"H", "i", "!">>] >>
    /\ session.sessionId # NoSession
    /\ session.error = "boom"
    /\ session.isComplete
    /\ mounted = NoInstance

(* ------------------------- properties: reset, upload -------------------- *)

\* C13: from every reachable store state reset() gives exactly the initial
\* state (sessionId null, isUploading false, isComplete false, messages
\* empty, isConnected false, error null), and the New Form step, which calls
\* it, leaves the store in that state: the step after which the page and the
\* components next read the store shows all six fields reset.
C13_ResetYieldsInitialState ==
    /\ [](LET initial == [sessionId |-> NoSession, isUploading |-> FALSE,
                          isComplete |-> FALSE, messages |-> <<>>,
                          isConnected |-> FALSE, error |-> Null]
          IN  reset(session) = initial /\ InitialState = initial)
    /\ [][HandleNewSession
            => /\ session'.sessionId = NoSession
               /\ ~session'.isUploading
               /\ ~session'.isComplete
               /\ session'.messages = <<>>
               /\ ~session'.isConnected
               /\ session'.error = Null]_vars

\* C13's case: New Form was pressed for the second time; the store is in its
\* initial state and the ChatInterface is gone.
C13_Witness ==
    /\ last = "newSession"
    /\ session = InitialState
    /\ nInst = MaxSessions
    /\ mounted = NoInstance

\* C14: the step in which uploadDocument resolves with a session id leaves
\* sessionId equal to that id and error null, and opens exactly one stream
\* handle, keyed to that id (by the mount of ChatInterface or by its
\* session-set effect, both part of the re-render the step ends with).
C14_UploadSuccessOpensStream ==
    [][UploadResolve
         => /\ session'.sessionId = nextSid
            /\ session'.error = Null
            /\ Cardinality(Opened) = 1
            /\ \A n \in Opened : handles'[n].sid = nextSid]_vars

\* C15: handing the upload zone a file whose name does not end in ".docx"
\* sets error to "Please upload a .docx file" and changes nothing else: no
\* upload request is issued, sessionId and isUploading keep their values and
\* no stream handle is opened or closed.
C15_NonDocxRejected ==
    [][\A name \in FileNames :
          (/\ LET n == Len(name) IN
                 ~(/\ n >= 5
                   /\ name[n - 4] = "." /\ name[n - 3] = "d" /\ name[n - 2] = "o"
                   /\ name[n - 1] = "c" /\ name[n] = "x")
           /\ HandleFileRejected(name) \/ HandleFileUpload(name))
          => /\ session' = [session EXCEPT !.error = "Please upload a .docx file"]
             /\ uploads' = uploads
             /\ handles' = handles]_vars

\* C15's case: a file without the suffix was handed in while an upload was in
\* flight; the message is shown and the upload is still the only one.
C15_Witness ==
    /\ last = "rejectFile"
    /\ session.error = "Please upload a .docx file"
    /\ session.sessionId = NoSession
    /\ session.isUploading
    /\ uploads = 1

\* C16: sessionId goes from null to non-null only in the step that handles a
\* successful upload response.
C16_SessionOnlyFromUpload ==
    [][(session.sessionId = NoSession /\ session'.sessionId # NoSession)
          => UploadResolve]_vars

\* C16's case: after a reset, a second upload succeeded and set the second
\* session id.
C16_Witness ==
    /\ last = "uploadResolve"
    /\ session.sessionId = MaxSessions
    /\ nInst = MaxSessions
    /\ mounted = MaxSessions

(* ------------------------- properties: submit --------------------------- *)

\* C17: a submit of a non-empty message with a session set appends the user
\* Message (the trimmed input) to the transcript in the step that issues
\* sendMessage, while the request is still in flight; when sendMessage fails,
\* error takes the failure's message and the transcript is left as it is.
C17_OptimisticAppendNoRollback ==
    [][/\ \A inputValue \in InputValues :
             HandleSubmit(inputValue)
             => /\ session' = [session EXCEPT !.messages =
                                  Append(@, [role |-> "user",
                                             content |-> trim(inputValue)])]
                /\ trim(inputValue) # <<>>
                /\ isSending'[mounted]
       /\ \A i \in Instances, detail \in Details :
             SendReject(i, detail)
             => /\ session'.messages = session.messages
                /\ session'.error =
                      (IF detail # "" THEN detail ELSE "Failed to send message")
                /\ ~isSending'[i]]_vars

\* C17's case: the send of a submitted message failed; the error is stored
\* and the user's Message is still the last of the transcript.
C17_Witness ==
    /\ last = "sendReject"
    /\ session.error = "Failed to send message"
    /\ session.sessionId # NoSession
    /\ session.messages # <<>>
    /\ session.messages[Len(session.messages)] =
          [role |-> "user", content |-> <<"h", "i">>]

(* --------------------- properties: isUploading, isConnected ------------- *)

\* C18: in every reachable state isUploading = true implies an uploadDocument
\* request is in flight (issued, neither resolved nor rejected), and the step
\* that handles a settled upload, resolved or rejected, leaves isUploading
\* false.
C18_UploadingOnlyInFlight ==
    /\ [](session.isUploading => uploads > 0)
    /\ [][(UploadResolve \/ \E detail \in Details : UploadReject(detail))
             => ~session'.isUploading]_vars

\* C18's case: the only upload in flight failed; isUploading is false again
\* and no request is in flight.
C18_Witness ==
    /\ last = "uploadReject"
    /\ ~session.isUploading
    /\ uploads = 0
    /\ session.error = "Upload failed"
    /\ session.sessionId = NoSession

\* C19: apart from reset, isConnected becomes true only in the step that is
\* the open signal of the current handle (the mounted ChatInterface's
\* eventSource), and false only in the step that is its error signal.
C19_ConnectedFromTransportOnly ==
    [][/\ (~session.isConnected /\ session'.isConnected)
             => \E h \in HandleIds :
                   /\ mounted # NoInstance
                   /\ eventSource[mounted] = h
                   /\ OnOpen(h)
       /\ (session.isConnected /\ ~session'.isConnected /\ ~HandleNewSession)
             => \E h \in HandleIds :
                   /\ mounted # NoInstance
                   /\ eventSource[mounted] = h
                   /\ OnError(h)]_vars

\* C20: the transport error callback and the timer-run reconnect that follows
\* it write no store field but isConnected: error keeps the value it had.
C20_TransportErrorKeepsError ==
    [][/\ \A h \in HandleIds :
             OnError(h) => session' = [session EXCEPT !.isConnected = FALSE]
       /\ TimerFire
             => /\ session'.error = session.error
                /\ \E b \in BOOLEAN : session' = [session EXCEPT !.isConnected = b]]_vars

\* C20's case: error had been set; then the transport failed and
\* the timer reconnected, and error still holds that text.
C20_Witness ==
    /\ last = "timer"
    /\ session.error = "boom"
    /\ session.isConnected
    /\ session.sessionId # NoSession

(* ------------------ properties: failed upload, stream keys -------------- *)

\* C21: the step that handles a failed uploadDocument leaves the store
\* recoverable: sessionId keeps the value it had (the upload sets none),
\* error holds the failure's message, isUploading is false and no stream
\* handle is opened; when no session is set the upload zone is what the page
\* shows, idle, so a new upload can be started.
C21_UploadFailureRecoverable ==
    [][\A detail \in Details :
          UploadReject(detail)
          => /\ session'.sessionId = session.sessionId
             /\ session'.error = (IF detail # "" THEN detail ELSE "Upload failed")
             /\ ~session'.isUploading
             /\ Opened = {}
             /\ session'.sessionId = NoSession => mounted' = NoInstance]_vars

\* C21's case: an upload failed with the backend's detail; the message is in
\* error, no session is set, nothing is in flight and no stream is open.
C21_Witness ==
    /\ last = "uploadReject"
    /\ session.error = "boom"
    /\ ~session.isUploading
    /\ session.sessionId = NoSession
    /\ uploads = 0
    /\ LiveHandles(handles) = {}
    /\ mounted = NoInstance

\* C22: in every reachable state isConnected = true implies sessionId is
\* non-null.
C22_ConnectedImpliesSession ==
    session.isConnected => session.sessionId # NoSession

\* C22's case: after a reset and a second upload, a done event reconnected
\* the stream: isConnected is true and the second session id is set.
C22_Witness ==
    /\ session.isConnected
    /\ session.sessionId = MaxSessions
    /\ last = "done"
    /\ nInst = MaxSessions

\* C23: in every reachable state every live stream handle is keyed to the
\* store's current sessionId.
C23_LiveHandleKeyedToSession ==
    \A h \in LiveHandles(handles) : handles[h].sid = session.sessionId

====
